---------------------------- MODULE Spec2Model ----------------------------
(***************************************************************************)
(* pcr_scanner: scanning SAM reads for PCR primer pairs.                   *)
(*                                                                         *)
(* Two programs are modelled: cram_scanner.py (exact matching through one  *)
(* combined regular expression) and pcr_scanner.py (approximate matching   *)
(* through fuzzysearch.find_near_matches with max_l_dist=2).               *)
(*                                                                         *)
(* A nucleotide string is a sequence of one-character strings.  Python     *)
(* slices are half open and 0-based: s[a:b] is Slice(s, a, b).             *)
(***************************************************************************)
EXTENDS Integers, Sequences, FiniteSets, TLC

VARIABLES
    pc,               \* position of the script: "start", "loop", "done", "exit", "crashed"
    primers,          \* the primer catalog, a sequence of pairs <<p1, p2>>
    rev_primers,      \* pcr_scanner: the reverse-complemented catalog
    multirgx,         \* cram_scanner: the combined pattern, a sequence of alternatives
    output,           \* lines printed on standard output so far
    consumed,         \* lines read from the read stream so far
    lines_processed,  \* the loop's line counter
    primer_is_reverse,\* pcr_scanner: the loop's orientation variable
    err,              \* the uncaught exception that ended the run, or "none"
    arg,              \* revcomp on its own: the argument
    res               \* revcomp on its own: <<revcomp(arg), revcomp(revcomp(arg))>>

vars == <<pc, primers, rev_primers, multirgx, output, consumed, lines_processed,
          primer_is_reverse, err, arg, res>>

---------------------------------------------------------------------------
(* Bounds of the model.                                                    *)

MaxSeqLen == 2        \* revcomp on its own: longest argument
MaxPairs == 2         \* longest primer catalog
MaxReadLen == 4       \* cram_scanner, one read: longest read sequence
MaxFlank == 6         \* pcr_scanner, one read: most filler around the core
MaxReads == 2         \* whole runs: most lines read from the stream

---------------------------------------------------------------------------
(* Strings.                                                                *)

Min(S) == CHOOSE x \in S : \A y \in S : x <= y
Max(S) == CHOOSE x \in S : \A y \in S : x >= y

RECURSIVE StringsUpTo(_, _)
StringsUpTo(alphabet, n) ==
    IF n = 0 THEN {<<>>}
    ELSE LET shorter == StringsUpTo(alphabet, n - 1)
         IN  shorter \cup {Append(s, c) : s \in {t \in shorter : Len(t) = n - 1},
                                          c \in alphabet}

\* Python s[a:b] for 0 <= a, b <= len(s); empty when b <= a.
Slice(s, a, b) == IF b <= a THEN <<>> ELSE SubSeq(s, a + 1, b)

\* Whether literal lit occurs in s at 0-based offset k.
OccursAt(s, lit, k) ==
    /\ k >= 0
    /\ k + Len(lit) <= Len(s)
    /\ \A j \in 1..Len(lit) : s[k + j] = lit[j]

UpperOf == ("a" :> "A") @@ ("c" :> "C") @@ ("g" :> "G") @@ ("t" :> "T") @@
           ("m" :> "M") @@ ("r" :> "R") @@ ("w" :> "W") @@ ("s" :> "S") @@
           ("y" :> "Y") @@ ("k" :> "K") @@ ("v" :> "V") @@ ("h" :> "H") @@
           ("d" :> "D") @@ ("b" :> "B") @@ ("n" :> "N") @@ ("x" :> "X")

\* str.upper(), one character
UpperChar(c) == IF c \in DOMAIN UpperOf THEN UpperOf[c] ELSE c

upper(s) == [i \in 1..Len(s) |-> UpperChar(s[i])]

---------------------------------------------------------------------------
(* revcomp                                                                 *)

complements_VtoD ==
    ("A" :> "T") @@ ("C" :> "G") @@ ("G" :> "C") @@ ("T" :> "A") @@
    ("M" :> "K") @@ ("R" :> "Y") @@ ("W" :> "W") @@ ("S" :> "S") @@
    ("Y" :> "R") @@ ("K" :> "M") @@ ("V" :> "D") @@ ("H" :> "D") @@
    ("D" :> "H") @@ ("B" :> "V") @@ ("N" :> "N")

complements ==
    ("A" :> "T") @@ ("C" :> "G") @@ ("G" :> "C") @@ ("T" :> "A") @@
    ("M" :> "K") @@ ("R" :> "Y") @@ ("W" :> "W") @@ ("S" :> "S") @@
    ("Y" :> "R") @@ ("K" :> "M") @@ ("V" :> "B") @@ ("H" :> "D") @@
    ("D" :> "H") @@ ("B" :> "V") @@ ("N" :> "N")

\* complements[char] raises KeyError for a character that is no key of the table
RaisesKeyError(s) == \E i \in 1..Len(s) : UpperChar(s[i]) \notin DOMAIN complements

\* ''.join(complements[char] for char in s.upper()[::-1]), where it raises nothing
revcomp(s) == [i \in 1..Len(s) |-> complements[UpperChar(s[Len(s) + 1 - i])]]

---------------------------------------------------------------------------
(* cram_scanner.py                                                         *)

\* Python's None among the groups of a match: no one-character string.
None == <<"None">>

\* match_position returns None when every element is None (or there is none).
NoPosition == -1

match_position(l) ==
    LET set == {pos \in 1..Len(l) : l[pos] # None}
    IN  IF set = {} THEN NoPosition ELSE Min(set) - 1

\* One alternative '(.*)lit1(.+)lit2(.*)' is kept as <<lit1, lit2>>.
build_regex(primers_list) ==
    [k \in 1..(2 * Len(primers_list)) |->
        IF k <= Len(primers_list)
        THEN <<primers_list[k][2], primers_list[k][1]>>
        ELSE <<revcomp(primers_list[k - Len(primers_list)][1]),
               revcomp(primers_list[k - Len(primers_list)][2])>>]

\* The ways '(.*)lit1(.+)lit2(.*)' matches the whole of seq: <<s, t>> are the
\* 0-based offsets of lit1 and lit2, with at least one character between them.
AltMatches(alt, seq) ==
    {st \in (0..Len(seq)) \X (0..Len(seq)) :
        /\ OccursAt(seq, alt[1], st[1])
        /\ OccursAt(seq, alt[2], st[2])
        /\ st[2] >= st[1] + Len(alt[1]) + 1}

\* The lazy reading of the same pattern, '(.*?)lit1(.+?)lit2(.*)'.
AltGroupsLazy(alt, seq) ==
    LET ms == AltMatches(alt, seq)
        s  == Min({st[1] : st \in ms})
        t  == Min({st[2] : st \in {m \in ms : m[1] = s}})
    IN  <<Slice(seq, 0, s),
          Slice(seq, s + Len(alt[1]), t),
          Slice(seq, t + Len(alt[2]), Len(seq))>>

\* Backtracking with greedy quantifiers: the first (.*) takes the longest prefix
\* that lets the rest match, then (.+) the longest middle.
AltGroups(alt, seq) ==
    LET ms == AltMatches(alt, seq)
        s  == Max({st[1] : st \in ms})
        t  == Max({st[2] : st \in {m \in ms : m[1] = s}})
    IN  <<Slice(seq, 0, s),
          Slice(seq, s + Len(alt[1]), t),
          Slice(seq, t + Len(alt[2]), Len(seq))>>

\* multirgx.search(seq).  Every alternative starts with (.*) and a read holds no
\* line break, so a match anywhere is a match from offset 0, and at offset 0 the
\* alternatives are tried in order.  The pattern of an empty catalog is the empty
\* pattern: it matches every read and has no group.
RegexSearch(rgx, seq) ==
    LET hits == {k \in 1..Len(rgx) : AltMatches(rgx[k], seq) # {}}
    IN  IF Len(rgx) = 0 THEN [matched |-> TRUE, groups |-> <<>>]
        ELSE IF hits = {} THEN [matched |-> FALSE, groups |-> <<>>]
        ELSE LET k == Min(hits)
                 g == AltGroups(rgx[k], seq)
             IN  [matched |-> TRUE,
                  groups  |-> [j \in 1..(3 * Len(rgx)) |->
                                 IF j \in (3 * (k - 1) + 1)..(3 * k)
                                 THEN g[j - 3 * (k - 1)]
                                 ELSE None]]

CramRow(name, primer_pos, five_prime, primer1, captured, primer2, three_prime, is_reverse) ==
    [read |-> name, primerpos |-> primer_pos, fiveprime |-> five_prime,
     primer1 |-> primer1, sequence |-> captured, primer2 |-> primer2,
     threeprime |-> three_prime, orientation |-> IF is_reverse THEN "-" ELSE "+"]

\* The reverse branch without the reverse complement of the captured groups.
CramResolveRaw(prim, name, groups, rgx_pos) ==
    LET primer_pos0 == rgx_pos \div 3
        is_reverse  == primer_pos0 >= Len(prim)
        primer_pos  == primer_pos0 % Len(prim)
        g           == SubSeq(groups, rgx_pos + 1, rgx_pos + 3)
    IN  [err  |-> "none",
         rows |-> <<CramRow(name, primer_pos,
                            IF is_reverse THEN g[3] ELSE g[1],
                            prim[primer_pos + 1][2],
                            g[2],
                            prim[primer_pos + 1][1],
                            IF is_reverse THEN g[1] ELSE g[3],
                            is_reverse)>>]

\* Lines 118-135: from the position of the first group that is not None to the
\* printed row.
CramResolve(prim, name, groups, rgx_pos) ==
    LET primer_pos0 == rgx_pos \div 3
        is_reverse  == primer_pos0 >= Len(prim)
        primer_pos  == primer_pos0 % Len(prim)
        g           == SubSeq(groups, rgx_pos + 1, rgx_pos + 3)
    IN  IF is_reverse /\ \E k \in 1..3 : RaisesKeyError(g[k])
        THEN [err |-> "KeyError", rows |-> <<>>]
        ELSE [err  |-> "none",
              rows |-> <<CramRow(name, primer_pos,
                                 IF is_reverse THEN revcomp(g[3]) ELSE g[1],
                                 prim[primer_pos + 1][2],
                                 IF is_reverse THEN revcomp(g[2]) ELSE g[2],
                                 prim[primer_pos + 1][1],
                                 IF is_reverse THEN revcomp(g[1]) ELSE g[3],
                                 is_reverse)>>]

\* One iteration of the read loop, lines 112-135: the exception it raises, if
\* any, and the rows it prints.
CramBody(prim, rgx, name, seq) ==
    LET search == RegexSearch(rgx, seq)
    IN  IF ~search.matched THEN [err |-> "none", rows |-> <<>>]
        ELSE LET rgx_pos == match_position(search.groups)
             IN  IF rgx_pos = NoPosition
                 THEN [err |-> "TypeError", rows |-> <<>>]   \* None // 3
                 ELSE CramResolve(prim, name, search.groups, rgx_pos)

---------------------------------------------------------------------------
(* pcr_scanner.py                                                          *)

max_l_dist == 2       \* fuzzysearch.find_near_matches(..., max_l_dist=2)
umi_width == 5        \* post_right[:5], pre_left[-5:]

Min3(a, b, c) == Min({a, b, c})

\* Levenshtein distance, row by row: row holds the entries of columns
\* 0..Len(row)-1 of the current row, prev the row above.
RECURSIVE LevFillRow(_, _, _, _)
LevFillRow(prev, ca, b, row) ==
    IF Len(row) = Len(b) + 1 THEN row
    ELSE LET j == Len(row)
         IN  LevFillRow(prev, ca, b,
                 Append(row, Min3(prev[j + 1] + 1,
                                  row[j] + 1,
                                  prev[j] + (IF ca = b[j] THEN 0 ELSE 1))))

RECURSIVE LevRows(_, _, _, _)
LevRows(a, b, i, prev) ==
    IF i > Len(a) THEN prev[Len(b) + 1]
    ELSE LevRows(a, b, i + 1, LevFillRow(prev, a[i], b, <<i>>))

Levenshtein(a, b) == LevRows(a, b, 1, [j \in 1..(Len(b) + 1) |-> j - 1])

\* fuzzysearch.find_near_matches(subsequence, sequence, max_l_dist=2): the
\* spans [start, end) of sequence within Levenshtein distance max_l_dist of
\* subsequence.  Which of them the library lists first is left open: the first
\* element of the list is any of them.
find_near_matches(subsequence, sequence) ==
    {m \in [start : 0..Len(sequence), end : 0..Len(sequence)] :
        /\ m.start <= m.end
        \* a span whose length differs by more than max_l_dist is farther than that
        /\ (m.end - m.start) - Len(subsequence) <= max_l_dist
        /\ Len(subsequence) - (m.end - m.start) <= max_l_dist
        /\ Levenshtein(subsequence, Slice(sequence, m.start, m.end)) <= max_l_dist}

\* A search that returns at the first pair with one oligo found.
fuzzy_search_one_oligo(string, primer_pairs) ==
    LET hits == {i \in 1..Len(primer_pairs) :
                    find_near_matches(primer_pairs[i][1], string) # {}}
    IN  IF hits = {} THEN {}
        ELSE LET i == Min(hits)
             IN  {<<i - 1, m1, m2>> :
                     m1 \in find_near_matches(primer_pairs[i][1], string),
                     m2 \in find_near_matches(primer_pairs[i][1], string)}

\* fuzzy_search(string, primer_pairs): the tuples (i, search1[0], search2[0]) it
\* may return; the empty set stands for None.
fuzzy_search(string, primer_pairs) ==
    LET hits == {i \in 1..Len(primer_pairs) :
                    /\ find_near_matches(primer_pairs[i][1], string) # {}
                    /\ find_near_matches(primer_pairs[i][2], string) # {}}
    IN  IF hits = {} THEN {}
        ELSE LET i == Min(hits)
             IN  {<<i - 1, m1, m2>> :
                     m1 \in find_near_matches(primer_pairs[i][1], string),
                     m2 \in find_near_matches(primer_pairs[i][2], string)}

\* The orientation variable where the forward branch assigns nothing.
PcrOrientationStale(old, fwd, rev) ==
    IF fwd # {} THEN old
    ELSE IF rev # {} THEN "True"
    ELSE old

\* Lines 120-126: the value of primer_is_reverse after the two searches; it
\* keeps its old value (or stays unbound) when neither search finds a pair.
PcrOrientation(old, fwd, rev) ==
    IF fwd # {} THEN "False"
    ELSE IF rev # {} THEN "True"
    ELSE old

\* The UMI taken from the inner side of the flank.
PcrUmiInner(is_rev, pre_left, post_right) ==
    IF is_rev
    THEN Slice(post_right, Len(post_right) - Min({umi_width, Len(post_right)}), Len(post_right))
    ELSE Slice(pre_left, 0, Min({umi_width, Len(pre_left)}))

\* Lines 141-145: post_right[:5] or pre_left[-5:]
PcrUmi(is_rev, pre_left, post_right) ==
    IF is_rev
    THEN Slice(post_right, 0, Min({umi_width, Len(post_right)}))
    ELSE Slice(pre_left, Len(pre_left) - Min({umi_width, Len(pre_left)}), Len(pre_left))

\* Spans ordered by start alone, match1 first on a tie.
PcrSpansByStart(match1, match2) ==
    IF match1.start <= match2.start
    THEN [l_s |-> match1.start, l_e |-> match1.end, r_s |-> match2.start, r_e |-> match2.end]
    ELSE [l_s |-> match2.start, l_e |-> match2.end, r_s |-> match1.start, r_e |-> match1.end]

\* Lines 129-133: (match1.start, match1.end) < (match2.start, match2.end)
PcrSpans(match1, match2) ==
    IF \/ match1.start < match2.start
       \/ (match1.start = match2.start /\ match1.end < match2.end)
    THEN [l_s |-> match1.start, l_e |-> match1.end, r_s |-> match2.start, r_e |-> match2.end]
    ELSE [l_s |-> match2.start, l_e |-> match2.end, r_s |-> match1.start, r_e |-> match1.end]

\* Lines 128-159: the row printed for a found tuple.  chrom and pos are copied
\* from the line unchanged and are left out.
PcrRow(ln, found, is_rev) ==
    LET sp         == PcrSpans(found[2], found[3])
        seq        == ln.seq
        pre_left   == Slice(seq, 0, sp.l_s)
        post_right == Slice(seq, sp.r_e, Len(seq))
    IN  [read |-> ln.name, primerid |-> found[1],
         preleft |-> pre_left,
         left |-> Slice(seq, sp.l_s, sp.l_e),
         sequence |-> Slice(seq, sp.l_e, sp.r_s),
         right |-> Slice(seq, sp.r_s, sp.r_e),
         postright |-> post_right,
         umi |-> PcrUmi(is_rev, pre_left, post_right),
         primerorientation |-> IF is_rev THEN "-" ELSE "+",
         readorientation |-> IF (ln.flag \div 16) % 2 = 1 THEN "-" ELSE "+",
         seq |-> seq,
         spans |-> sp]       \* not printed: the spans the row was cut at

\* One iteration of the read loop, lines 112-159: every outcome it can have,
\* each the value primer_is_reverse is left with and the rows printed.
PcrBody(prim, rev_prim, old, ln) ==
    LET fwd   == fuzzy_search(ln.seq, prim)
        rev   == IF fwd # {} THEN {} ELSE fuzzy_search(ln.seq, rev_prim)
        found == IF fwd # {} THEN fwd ELSE rev
        now   == PcrOrientation(old, fwd, rev)
    IN  IF found = {} THEN {[err |-> "none", pir |-> now, rows |-> <<>>]}
        ELSE IF now = "unbound"
        THEN {[err |-> "NameError", pir |-> now, rows |-> <<>>]}
        ELSE {[err |-> "none", pir |-> now, rows |-> <<PcrRow(ln, f, now = "True")>>] :
                 f \in found}

---------------------------------------------------------------------------
(* Inputs.                                                                 *)

\* The catalogs read_primers can return: the lines of a primer file, each of
\* two tokens.  An empty file gives the empty catalog.
RECURSIVE Catalogs(_, _)
Catalogs(pair_set, n) ==
    IF n = 0 THEN {<<>>}
    ELSE LET shorter == Catalogs(pair_set, n - 1)
         IN  shorter \cup {Append(c, p) : c \in {d \in shorter : Len(d) = n - 1},
                                          p \in pair_set}

\* "X" is no key of the complement table.
CramPairSet == {<<<<"A">>, <<"A">>>>,
                <<<<"A">>, <<"T">>>>,
                <<<<"T", "A">>, <<"A">>>>,
                <<<<"X">>, <<"A">>>>}
CramAlphabet == {"A", "T", "X"}
CramReads == StringsUpTo(CramAlphabet, MaxReadLen)
\* The read stream of a whole run draws its lines from a few reads.
CramPool == {<<"A", "T", "A">>, <<"X", "T", "A", "T">>, <<"T", "T">>, <<"X">>}

PcrPairSet == {<<<<"A", "A", "A">>, <<"A", "A", "A">>>>,
               <<<<"A", "A", "A">>, <<"T", "T", "T">>>>,
               <<<<"X">>, <<"A", "A", "A">>>>}
Filler(n) == [i \in 1..n |-> "G"]
\* Reads of a core between two runs of "G", which is in no primer.
PcrCores == {<<>>, <<"A">>, <<"T">>, <<"T", "A">>, <<"A", "G", "T">>,
             <<"T", "G", "G", "T">>}
PcrReads == {Filler(ab[1]) \o core \o Filler(ab[2]) :
                ab \in {x \in (0..MaxFlank) \X (0..MaxFlank) : x[1] + x[2] <= MaxFlank},
                core \in PcrCores}
\* The read stream of a whole run draws its lines from a few lines.
PcrPool == {[flag |-> 0, seq |-> <<"A">>], [flag |-> 16, seq |-> <<"T">>],
            [flag |-> 0, seq |-> <<"T", "A">>], [flag |-> 16, seq |-> <<>>]}

RevcompAlphabet == DOMAIN complements \cup (DOMAIN UpperOf \ {"x"})

HeaderLine == "HEADER"

Init ==
    /\ pc = "start"
    /\ primers = <<>>
    /\ rev_primers = <<>>
    /\ multirgx = <<>>
    /\ output = <<>>
    /\ consumed = <<>>
    /\ lines_processed = 0
    /\ primer_is_reverse = "unbound"
    /\ err = "none"
    /\ arg = <<>>
    /\ res = <<>>

---------------------------------------------------------------------------
(* revcomp on its own.                                                     *)

InitRevcomp ==
    /\ pc = "start"
    /\ primers = <<>>
    /\ rev_primers = <<>>
    /\ multirgx = <<>>
    /\ output = <<>>
    /\ consumed = <<>>
    /\ lines_processed = 0
    /\ primer_is_reverse = "unbound"
    /\ err = "none"
    /\ arg \in StringsUpTo(RevcompAlphabet, MaxSeqLen)
    /\ res = <<>>

RevcompApply ==
    /\ pc = "start"
    /\ pc' = "done"
    /\ res' = <<revcomp(arg), revcomp(revcomp(arg))>>
    /\ UNCHANGED <<primers, rev_primers, multirgx, output, consumed,
                   lines_processed, primer_is_reverse, err, arg>>

NextRevcomp == RevcompApply

SpecRevcomp == InitRevcomp /\ [][NextRevcomp]_vars

---------------------------------------------------------------------------
(* cram_scanner.py, __main__                                               *)

\* Lines 88-90 and 99-103: the primers file or the reads file does not exist;
\* the script logs an error and exits before the header.
CramNoFile ==
    /\ pc = "start"
    /\ pc' = "exit"
    /\ UNCHANGED <<primers, rev_primers, multirgx, output, consumed,
                   lines_processed, primer_is_reverse, err, arg, res>>

\* Lines 92-106: read_primers, build_regex (revcomp of every primer) and the
\* header.
CramStartup ==
    /\ pc = "start"
    /\ \E cat \in Catalogs(CramPairSet, MaxPairs) :
          /\ primers' = cat
          /\ IF \E k \in 1..Len(cat) : RaisesKeyError(cat[k][1]) \/ RaisesKeyError(cat[k][2])
             THEN /\ pc' = "crashed"
                  /\ err' = "KeyError"
                  /\ UNCHANGED <<multirgx, output>>
             ELSE /\ pc' = "loop"
                  /\ multirgx' = build_regex(cat)
                  /\ output' = <<HeaderLine>>
                  /\ UNCHANGED err
    /\ UNCHANGED <<rev_primers, consumed, lines_processed, primer_is_reverse, arg, res>>

\* Lines 110-137, one iteration on a line whose sequence field is seq; the
\* read's name is its place in the stream.
CramIteration(seq) ==
    LET name == lines_processed + 1
        body == CramBody(primers, multirgx, name, seq)
    IN  /\ lines_processed' = lines_processed + 1
        /\ consumed' = Append(consumed, [name |-> name, seq |-> seq])
        /\ output' = output \o body.rows
        /\ err' = body.err
        /\ pc' = IF body.err = "none" THEN "loop" ELSE "crashed"
        /\ UNCHANGED <<primers, rev_primers, multirgx, primer_is_reverse, arg, res>>

CramFirstRead ==
    /\ pc = "loop"
    /\ lines_processed = 0
    /\ \E seq \in CramReads : CramIteration(seq)

CramRead ==
    /\ pc = "loop"
    /\ lines_processed < MaxReads
    /\ \E seq \in CramPool : CramIteration(seq)

\* The stream ends.
CramEOF ==
    /\ pc = "loop"
    /\ pc' = "done"
    /\ UNCHANGED <<primers, rev_primers, multirgx, output, consumed,
                   lines_processed, primer_is_reverse, err, arg, res>>

NextCramRead == CramNoFile \/ CramStartup \/ CramFirstRead

\* The script up to the end of its first loop iteration, on any read.
SpecCramRead == Init /\ [][NextCramRead]_vars

NextCram == CramNoFile \/ CramStartup \/ CramRead \/ CramEOF

\* Whole runs of the script.
SpecCram == Init /\ [][NextCram]_vars

---------------------------------------------------------------------------
(* pcr_scanner.py, __main__                                                *)

\* Lines 90-92 and 100-104: the primers file or the reads file does not exist.
PcrNoFile ==
    /\ pc = "start"
    /\ pc' = "exit"
    /\ UNCHANGED <<primers, rev_primers, multirgx, output, consumed,
                   lines_processed, primer_is_reverse, err, arg, res>>

\* Lines 94-107: read_primers (with the reverse complement of every primer) and
\* the header.
PcrStartup ==
    /\ pc = "start"
    /\ \E cat \in Catalogs(PcrPairSet, MaxPairs) :
          IF \E k \in 1..Len(cat) : RaisesKeyError(cat[k][1]) \/ RaisesKeyError(cat[k][2])
          THEN /\ pc' = "crashed"
               /\ err' = "KeyError"
               /\ UNCHANGED <<primers, rev_primers, output>>
          ELSE /\ pc' = "loop"
               /\ primers' = cat
               /\ rev_primers' = [k \in 1..Len(cat) |-> <<revcomp(cat[k][1]), revcomp(cat[k][2])>>]
               /\ output' = <<HeaderLine>>
               /\ UNCHANGED err
    /\ UNCHANGED <<multirgx, consumed, lines_processed, primer_is_reverse, arg, res>>

\* Lines 111-161, one iteration on a line with the given flag and sequence.
PcrIteration(flag, seq) ==
    LET ln == [name |-> lines_processed + 1, flag |-> flag, seq |-> seq]
    IN  \E body \in PcrBody(primers, rev_primers, primer_is_reverse, ln) :
          /\ lines_processed' = lines_processed + 1
          /\ consumed' = Append(consumed, ln)
          /\ output' = output \o body.rows
          /\ primer_is_reverse' = body.pir
          /\ err' = body.err
          /\ pc' = IF body.err = "none" THEN "loop" ELSE "crashed"
          /\ UNCHANGED <<primers, rev_primers, multirgx, arg, res>>

PcrFirstRead ==
    /\ pc = "loop"
    /\ lines_processed = 0
    /\ \E seq \in PcrReads : PcrIteration(0, seq)

PcrRead ==
    /\ pc = "loop"
    /\ lines_processed < MaxReads
    /\ \E ln \in PcrPool : PcrIteration(ln.flag, ln.seq)

\* The stream ends.
PcrEOF ==
    /\ pc = "loop"
    /\ pc' = "done"
    /\ UNCHANGED <<primers, rev_primers, multirgx, output, consumed,
                   lines_processed, primer_is_reverse, err, arg, res>>

NextPcrRead == PcrNoFile \/ PcrStartup \/ PcrFirstRead

\* The script up to the end of its first loop iteration, on any read.
SpecPcrRead == Init /\ [][NextPcrRead]_vars

NextPcr == PcrNoFile \/ PcrStartup \/ PcrRead \/ PcrEOF

\* Whole runs of the script.
SpecPcr == Init /\ [][NextPcr]_vars

---------------------------------------------------------------------------
(* The claims.                                                             *)

\* At least one loop iteration has run.
Processed == lines_processed >= 1
LastSeq == consumed[Len(consumed)].seq
DataRows == IF output = <<>> THEN <<>> ELSE Tail(output)

\* The ways to write seq as pre + lit1 + mid + lit2 + post with mid non-empty.
Builds(seq, lit1, lit2) ==
    {[pre |-> Slice(seq, 0, ac[1]),
      mid |-> Slice(seq, ac[1] + Len(lit1), ac[2]),
      post |-> Slice(seq, ac[2] + Len(lit2), Len(seq))] :
        ac \in {x \in (0..Len(seq)) \X (0..Len(seq)) :
                  /\ x[2] >= x[1] + Len(lit1) + 1
                  /\ x[2] + Len(lit2) <= Len(seq)
                  /\ seq = Slice(seq, 0, x[1]) \o lit1 \o Slice(seq, x[1] + Len(lit1), x[2])
                           \o lit2 \o Slice(seq, x[2] + Len(lit2), Len(seq))}}

\* seq = prefix + p2 + middle + p1 + suffix: pre, mid, post are prefix, middle, suffix.
ForwardBuilds(seq, pair) == Builds(seq, pair[2], pair[1])

\* seq = revcomp(prefix + p2 + middle + p1 + suffix), which holds no unknown base.
ReverseBuilds(seq, pair) ==
    IF RaisesKeyError(seq) THEN {} ELSE ForwardBuilds(revcomp(seq), pair)

ForwardPairs(seq) == {j \in 1..Len(primers) : ForwardBuilds(seq, primers[j]) # {}}
ReversePairs(seq) == {j \in 1..Len(primers) : ReverseBuilds(seq, primers[j]) # {}}

\* The build with the longest prefix and, for that prefix, the longest middle.
LongestPrefix(builds) ==
    CHOOSE d \in builds : \A e \in builds :
        \/ Len(e.pre) < Len(d.pre)
        \/ (Len(e.pre) = Len(d.pre) /\ Len(e.mid) <= Len(d.mid))

\* The build with the longest suffix and, for that suffix, the longest middle.
LongestSuffix(builds) ==
    CHOOSE d \in builds : \A e \in builds :
        \/ Len(e.post) < Len(d.post)
        \/ (Len(e.post) = Len(d.post) /\ Len(e.mid) <= Len(d.mid))

\* C1 as stated: a read built as prefix + p2 + middle + p1 + suffix from the
\* pair at index i is reported with primer index i, orientation '+' and the
\* SEQUENCE column equal to middle.
C1_ForwardReportsBuild ==
    Processed =>
        \A i \in 1..Len(primers) : \A d \in ForwardBuilds(LastSeq, primers[i]) :
            /\ err = "none"
            /\ Len(output) = 2
            /\ output[2].primerpos = i - 1
            /\ output[2].orientation = "+"
            /\ output[2].sequence = d.mid

\* C1 amended: such a read is always reported, with orientation '+', under the
\* smallest index j <= i of a pair the read can be built from in this way, and
\* FIVEPRIME, SEQUENCE, THREEPRIME are the prefix, middle and suffix of the
\* build around pair j with the longest prefix and then the longest middle.
C1_ForwardReportsFirstGreedyBuild ==
    Processed =>
        \A i \in 1..Len(primers) : \A d \in ForwardBuilds(LastSeq, primers[i]) :
            /\ err = "none"
            /\ Len(output) = 2
            /\ LET row == output[2]
                   j   == Min(ForwardPairs(LastSeq))
                   g   == LongestPrefix(ForwardBuilds(LastSeq, primers[j]))
               IN  /\ row.orientation = "+"
                   /\ j <= i
                   /\ row.primerpos = j - 1
                   /\ row.primer1 = primers[j][2]
                   /\ row.primer2 = primers[j][1]
                   /\ row.fiveprime = g.pre
                   /\ row.sequence = g.mid
                   /\ row.threeprime = g.post
                   /\ (j = i /\ d = g) => row.sequence = d.mid

C1_Witness ==
    /\ Processed
    /\ Len(output) = 2
    /\ output[2].orientation = "+"
    /\ \E i \in 2..Len(primers) : \E d \in ForwardBuilds(LastSeq, primers[i]) :
          /\ output[2].primerpos = i - 1
          /\ output[2].sequence = d.mid
          /\ d.pre # <<>>

\* C2 as stated: the read revcomp(prefix + p2 + middle + p1 + suffix) built
\* from the pair at index i is reported with primer index i, orientation '-'
\* and the SEQUENCE column equal to revcomp(middle).
C2_ReverseReportsRevcompMiddle ==
    Processed =>
        \A i \in 1..Len(primers) : \A d \in ReverseBuilds(LastSeq, primers[i]) :
            /\ err = "none"
            /\ Len(output) = 2
            /\ output[2].primerpos = i - 1
            /\ output[2].orientation = "-"
            /\ output[2].sequence = revcomp(d.mid)

\* C2 amended: such a read is always reported; with orientation '+' when some
\* forward pattern matches it as well, and otherwise with orientation '-',
\* under the smallest index j <= i of a pair whose reverse pattern matches, and
\* FIVEPRIME, SEQUENCE, THREEPRIME are prefix, middle and suffix themselves (the
\* captured groups reverse-complemented back), of the build around pair j with
\* the longest suffix and then the longest middle.
C2_ReverseReportsMiddleItself ==
    Processed =>
        \A i \in 1..Len(primers) : \A d \in ReverseBuilds(LastSeq, primers[i]) :
            /\ err = "none"
            /\ Len(output) = 2
            /\ LET row == output[2]
               IN  IF ForwardPairs(LastSeq) # {}
                   THEN row.orientation = "+"
                   ELSE LET j == Min(ReversePairs(LastSeq))
                            g == LongestSuffix(ReverseBuilds(LastSeq, primers[j]))
                        IN  /\ row.orientation = "-"
                            /\ j <= i
                            /\ row.primerpos = j - 1
                            /\ row.primer1 = primers[j][2]
                            /\ row.primer2 = primers[j][1]
                            /\ row.fiveprime = g.pre
                            /\ row.sequence = g.mid
                            /\ row.threeprime = g.post

C2_Witness ==
    /\ Processed
    /\ Len(output) = 2
    /\ output[2].orientation = "-"
    /\ \E i \in 1..Len(primers) : \E d \in ReverseBuilds(LastSeq, primers[i]) :
          /\ output[2].primerpos = i - 1
          /\ output[2].sequence = d.mid
          /\ d.mid # revcomp(d.mid)
          /\ d.post # <<>>

\* Whether the combined pattern of the catalog matches seq.
ExactQualifies(seq) ==
    \E i \in 1..Len(primers) :
        \/ Builds(seq, primers[i][2], primers[i][1]) # {}
        \/ Builds(seq, revcomp(primers[i][1]), revcomp(primers[i][2])) # {}

\* C3 as stated (exact strategy, a catalog that is not empty): once the header
\* is out no read raises an error, and the data rows are those of the reads with
\* a qualifying match, one row each, in input order.
C3_RowsAreTheMatchingReads ==
    (Len(output) >= 1 /\ primers # <<>>) =>
        /\ err = "none"
        /\ LET hits == SelectSeq(consumed, LAMBDA ln : ExactQualifies(ln.seq))
           IN  /\ Len(DataRows) = Len(hits)
               /\ \A k \in 1..Len(hits) : DataRows[k].read = hits[k].name

\* C4 as stated: with an empty catalog the run stops before the header and
\* before the read loop.
C4_EmptyCatalogRejected ==
    primers = <<>> => (output = <<>> /\ pc \notin {"loop", "done"})

\* C5 as stated: once the pattern is built (the header is out), no read makes
\* the run fail with an unknown-base error.
C5_NoUnknownBaseErrorOnReads ==
    Len(output) >= 1 => err # "KeyError"

\* C6: every read's rows are what the loop body prints for that line from a
\* fresh start (primer_is_reverse unbound), whatever was read before it, and the
\* orientation printed is the one the two searches on that line assign.
C6_RowsDependOnOwnLineOnly ==
    /\ err \in {"none", "KeyError"}
    /\ err = "KeyError" => output = <<>>
    /\ \A k \in 1..Len(consumed) :
          LET mine == SelectSeq(DataRows, LAMBDA r : r.read = k)
          IN  /\ mine \in {b.rows : b \in PcrBody(primers, rev_primers, "unbound", consumed[k])}
              /\ \A n \in 1..Len(mine) :
                    mine[n].primerorientation =
                        IF fuzzy_search(consumed[k].seq, primers) # {} THEN "+" ELSE "-"

C6_Witness ==
    /\ Len(output) = 3
    /\ output[2].primerorientation = "-"
    /\ output[3].primerorientation = "+"
    /\ output[3].umi # <<>>

\* C7: the UMI of a row is the first min(5, len) characters of POSTRIGHT when
\* the orientation is '-', the last min(5, len) characters of PRELEFT otherwise.
C7_UmiFromOuterFlank ==
    \A n \in 1..Len(DataRows) :
        LET row   == DataRows[n]
            flank == IF row.primerorientation = "-" THEN row.postright ELSE row.preleft
            w     == IF Len(flank) >= 5 THEN 5 ELSE Len(flank)
        IN  /\ Len(row.umi) = w
            /\ row.primerorientation = "-" => row.umi = SubSeq(flank, 1, w)
            /\ row.primerorientation = "+" =>
                   row.umi = SubSeq(flank, Len(flank) - w + 1, Len(flank))

C7_Witness ==
    /\ Len(output) = 2
    /\ output[2].primerorientation = "+"
    /\ Len(output[2].preleft) > 5
    /\ Len(output[2].umi) = 5
    /\ output[2].umi # SubSeq(output[2].preleft, 1, 5)

\* C8: revcomp(revcomp(s)) = s.upper() and len(revcomp(s)) = len(s) for s over
\* the fifteen codes in either case.
C8_RevcompInvolution ==
    pc = "done" => (res[2] = upper(arg) /\ Len(res[1]) = Len(arg))

C8_Witness ==
    /\ pc = "done"
    /\ Len(arg) >= 2
    /\ res[2] # arg
    /\ res[1] # res[2]

\* Whether some span of seq is within the edit-distance budget of oligo.
WithinBudget(oligo, seq) ==
    \E a \in 0..Len(seq) : \E b \in a..Len(seq) :
        /\ (b - a) - Len(oligo) <= 2
        /\ Len(oligo) - (b - a) <= 2
        /\ Levenshtein(oligo, Slice(seq, a, b)) <= 2

ForwardQualifying(seq) ==
    {i \in 1..Len(primers) :
        WithinBudget(primers[i][1], seq) /\ WithinBudget(primers[i][2], seq)}

ReverseQualifying(seq) ==
    {i \in 1..Len(primers) :
        /\ WithinBudget(revcomp(primers[i][1]), seq)
        /\ WithinBudget(revcomp(primers[i][2]), seq)}

\* C9: the row carries the smallest index of a pair with both oligos within
\* budget in the forward catalog, with '+'; if there is none, the smallest such
\* index in the reverse-complemented catalog, with '-'; if there is none
\* either, no row is printed.
C9_FirstQualifyingPairWins ==
    Processed =>
        LET F == ForwardQualifying(LastSeq)
            R == ReverseQualifying(LastSeq)
        IN  /\ err = "none"
            /\ IF F # {}
               THEN /\ Len(output) = 2
                    /\ output[2].primerid = Min(F) - 1
                    /\ output[2].primerorientation = "+"
               ELSE IF R # {}
               THEN /\ Len(output) = 2
                    /\ output[2].primerid = Min(R) - 1
                    /\ output[2].primerorientation = "-"
               ELSE Len(output) = 1

C9_Witness ==
    /\ Processed
    /\ Len(output) = 2
    /\ output[2].primerid = 1
    /\ output[2].primerorientation = "-"
    /\ WithinBudget(revcomp(primers[1][1]), LastSeq)
    /\ ~WithinBudget(revcomp(primers[1][2]), LastSeq)

RowPieces(row) == row.preleft \o row.left \o row.sequence \o row.right \o row.postright

\* The pair a row was matched with, in the orientation it was found in.
MatchedPair(row) ==
    IF row.primerorientation = "+" THEN primers[row.primerid + 1]
    ELSE rev_primers[row.primerid + 1]

\* C10 as stated: the left span ends no later than the right span starts, and
\* the five pieces concatenate to the read.  It is stated of the rows whose
\* spans are forced, each oligo having one span within budget in the read, so
\* that a violation rests on no choice among near matches.
C10_SpansNeverOverlap ==
    \A n \in 1..Len(DataRows) :
        (/\ Cardinality(find_near_matches(MatchedPair(DataRows[n])[1], DataRows[n].seq)) = 1
         /\ Cardinality(find_near_matches(MatchedPair(DataRows[n])[2], DataRows[n].seq)) = 1)
        => /\ DataRows[n].spans.l_e <= DataRows[n].spans.r_s
           /\ RowPieces(DataRows[n]) = DataRows[n].seq

\* C10 amended: the spans are ordered by (start, end) and may overlap; the five
\* pieces are the slices of the read at the span ends; when the left span ends
\* no later than the right span starts they concatenate to the read, and when
\* the spans overlap the insert is empty and the pieces together are longer
\* than the read by the overlap.
C10_PiecesPartitionUnlessOverlap ==
    \A n \in 1..Len(DataRows) :
        LET row == DataRows[n]
            sp  == row.spans
            seq == row.seq
        IN  /\ sp.l_s <= sp.r_s
            /\ sp.l_s = sp.r_s => sp.l_e <= sp.r_e
            /\ row.preleft = Slice(seq, 0, sp.l_s)
            /\ row.left = Slice(seq, sp.l_s, sp.l_e)
            /\ row.sequence = Slice(seq, sp.l_e, sp.r_s)
            /\ row.right = Slice(seq, sp.r_s, sp.r_e)
            /\ row.postright = Slice(seq, sp.r_e, Len(seq))
            /\ sp.l_e <= sp.r_s => RowPieces(row) = seq
            /\ sp.l_e > sp.r_s =>
                  /\ row.sequence = <<>>
                  /\ Len(RowPieces(row)) = Len(seq) + (sp.l_e - sp.r_s)

C10_Witness ==
    /\ Len(output) = 2
    /\ output[2].spans.l_e < output[2].spans.r_s
    /\ output[2].sequence # <<>>
    /\ output[2].preleft # <<>>
    /\ RowPieces(output[2]) = output[2].seq

=============================================================================
